---- MODULE Spec2Model ----
\* A model of the HexEditor session: the hex document (HexView: lines of at
\* most BYTES_PER_LINE bytes and a nibble cursor), the key dispatch of the
\* main loop, the file the document is saved to, and the terminal cell buffer.
EXTENDS Integers, Sequences, FiniteSets, TLC

VARIABLES
    data,          \* main: the bytes read from the file (Vec<u8>)
    file,          \* the file's contents on disk
    lines,         \* HexView.lines: sequence of HexViewLine
    cursor,        \* HexView.cursor
    status_label,  \* main: status_label
    key,           \* the key of the last key-press event the loop dispatched
    panicked,      \* the process aborted on an arithmetic-overflow panic
    touched,       \* history: byte indices (0-based) a digit key has written
    nwrites,       \* history: number of digit keys that wrote a byte
    pc,            \* "load": before HexView::new; "run": in the event loop
    buffer,        \* main: buffer, a TerminalBuffer [cells, w, h]
    bufop,         \* the last call made on the buffer
    prev_buffer,   \* main: prev_buffer
    terminal,      \* the cells the terminal shows, as a grid [cells, w, h]
    patches,       \* the Vec<Patch> of the last diff
    quit,          \* main: quit
    screen,        \* the terminal's modes and the ScreenState guard
    exit           \* how the process ended: "none" while it runs

vars == <<data, file, lines, cursor, status_label, key, panicked, touched,
          nwrites, pc, buffer, bufop, prev_buffer, terminal, patches, quit,
          screen, exit>>

bufVars == <<buffer, bufop>>

frameVars == <<prev_buffer, terminal, patches>>

procVars == <<screen, exit>>

----------------------------------------------------------------------------
\* Bounds of the model.

\* Digit keys that may write a byte in one session of Spec.
MaxWrites == 1

\* Digit keys that may write a byte in one run of SpecNibble.
MaxNibbleWrites == 2

\* Longest file SpecLayout lays out.
MaxLayoutLen == 33

\* Largest cursor line followed once the line count has wrapped (empty file).
MaxWrapY == 3

\* Largest buffer width and height of SpecBuf.
MaxW == 2

MaxH == 2

\* Largest number of cells of the frames SpecDiff compares.
MaxDiffCells == 4

\* Width and height of the terminal SpecRender draws for: the full hex grid
\* of two lines (76 columns; header, two lines, status bar).
RenderW == 76

RenderH == 4

\* Width and height of the larger terminal of SpecMain.
MaxTermW == 14

MaxTermH == 3

\* Digit keys that may write a byte in one run of SpecMain.
MaxMainWrites == 1

\* Largest cursor column from which 'l' is pressed in SpecMain.
MaxMainX == 1

----------------------------------------------------------------------------
\* Program constants and machine arithmetic.

BYTES_PER_LINE == 16

\* usize::MAX. The value is only ever used as the result of the wrapped
\* 0 - 1 and compared with cursor.y + 1; the largest integer TLC holds stands
\* for 2^64 - 1, and like it exceeds every cursor.y + 1 that is reached.
UsizeMax == 2147483647

Min(a, b) == IF a <= b THEN a ELSE b

\* a - b on usize. With overflow checks (debug builds) an underflow panics;
\* without them (release builds) it wraps. The set of outcomes a build gives.
UsizeSub(a, b) ==
    IF a >= b
    THEN {[ok |-> TRUE, val |-> a - b]}
    ELSE {[ok |-> FALSE, val |-> 0],
          [ok |-> TRUE, val |-> UsizeMax - (b - a) + 1]}

RECURSIVE BitAnd(_, _)
BitAnd(a, b) ==
    IF a = 0 \/ b = 0 THEN 0
    ELSE (a % 2) * (b % 2) + 2 * BitAnd(a \div 2, b \div 2)

RECURSIVE BitOr(_, _)
BitOr(a, b) ==
    IF a = 0 THEN b
    ELSE IF b = 0 THEN a
    ELSE (IF a % 2 = 1 \/ b % 2 = 1 THEN 1 ELSE 0)
         + 2 * BitOr(a \div 2, b \div 2)

\* a << n on u8: bits shifted out of the byte are lost.
Shl8(a, n) == (a * (2 ^ n)) % 256

\* v as u8
AsU8(v) == v % 256

----------------------------------------------------------------------------
\* Characters and formatting.

UpperHex == <<"0", "1", "2", "3", "4", "5", "6", "7",
              "8", "9", "A", "B", "C", "D", "E", "F">>

\* The characters for which char::is_digit(16) holds, in to_digit order:
\* '0'..'9', 'a'..'f', then 'A'..'F'.
HexKeyChars == <<"0", "1", "2", "3", "4", "5", "6", "7", "8", "9",
                 "a", "b", "c", "d", "e", "f",
                 "A", "B", "C", "D", "E", "F">>

is_digit16(ch) == \E p \in 1..Len(HexKeyChars) : HexKeyChars[p] = ch

to_digit16(ch) ==
    LET p == CHOOSE q \in 1..Len(HexKeyChars) : HexKeyChars[q] = ch
    IN IF p <= 16 THEN p - 1 ELSE p - 7

\* The upper-case hexadecimal digits of n, most significant first.
RECURSIVE UpperHexDigits(_)
UpperHexDigits(n) ==
    IF n < 16 THEN <<UpperHex[n + 1]>>
    ELSE UpperHexDigits(n \div 16) \o <<UpperHex[(n % 16) + 1]>>

RECURSIVE ZeroPad(_, _)
ZeroPad(s, width) == IF Len(s) >= width THEN s ELSE ZeroPad(<<"0">> \o s, width)

\* format!("{offset:08X}"): a sequence of characters.
FormatOffset(offset) == ZeroPad(UpperHexDigits(offset), 8)

----------------------------------------------------------------------------
\* HexViewLine, Cursor, HexView.

HexViewLine(offset, bytes) == [offset |-> offset, bytes |-> bytes]

CursorDefault ==
    [x |-> 0, y |-> 0, is_visible |-> FALSE, is_left_nibble |-> TRUE]

\* The bytes of one line of HexView::new: data[offset..] when fewer than
\* BYTES_PER_LINE bytes remain, else data[offset..offset + BYTES_PER_LINE].
LineBytes(d, offset) ==
    IF offset + BYTES_PER_LINE > Len(d)
    THEN SubSeq(d, offset + 1, Len(d))
    ELSE SubSeq(d, offset + 1, offset + BYTES_PER_LINE)

\* A HexView::new whose loop stops when no whole line is left.
RECURSIVE NewLoopWholeLines(_, _, _)
NewLoopWholeLines(d, offset, acc) ==
    IF offset + BYTES_PER_LINE <= Len(d)
    THEN NewLoopWholeLines(d, offset + BYTES_PER_LINE,
             Append(acc, HexViewLine(FormatOffset(offset), LineBytes(d, offset))))
    ELSE acc

\* The while loop of HexView::new.
RECURSIVE NewLoop(_, _, _)
NewLoop(d, offset, acc) ==
    IF offset < Len(d)
    THEN NewLoop(d, offset + BYTES_PER_LINE,
             Append(acc, HexViewLine(FormatOffset(offset), LineBytes(d, offset))))
    ELSE acc

HexViewNewWholeLines(d) == NewLoopWholeLines(d, 0, <<>>)

\* HexView::new: the lines of the view.
HexViewNew(d) == NewLoop(d, 0, <<>>)

\* A get_selected_byte that clamps x to the last byte of the line.
get_selected_byte_clamped(ls, c) ==
    IF c.y < Len(ls) /\ Len(ls[c.y + 1].bytes) > 0
    THEN {<<c.y + 1, Min(c.x, Len(ls[c.y + 1].bytes) - 1) + 1>>}
    ELSE {}

\* get_selected_byte: the place <<line, byte>> (counted from 1) of the byte
\* the returned reference points to; the empty set is None.
get_selected_byte(ls, c) ==
    IF c.y < Len(ls) /\ c.x < Len(ls[c.y + 1].bytes)
    THEN {<<c.y + 1, c.x + 1>>}
    ELSE {}

\* A left nibble write that masks with 0xF0 instead of 0xF.
write_nibble_wrong_mask(b, left_nibble, ch) ==
    IF left_nibble
    THEN BitOr(BitAnd(b, 240), Shl8(AsU8(to_digit16(ch)), 4))
    ELSE BitOr(BitAnd(b, 240), BitAnd(AsU8(to_digit16(ch)), 15))

\* A nibble write that adds the digit to the nibble instead of replacing it.
write_nibble_adds(b, left_nibble, ch) ==
    IF left_nibble
    THEN AsU8(b + Shl8(AsU8(to_digit16(ch)), 4))
    ELSE BitOr(BitAnd(b, 240), BitAnd(b + AsU8(to_digit16(ch)), 15))

\* The new value of the byte under the cursor for digit key ch:
\*   left:  *b & 0xF  | (digit as u8) << 4
\*   right: *b & 0xF0 | digit as u8 & 0xF
write_nibble(b, left_nibble, ch) ==
    IF left_nibble
    THEN BitOr(BitAnd(b, 15), Shl8(AsU8(to_digit16(ch)), 4))
    ELSE BitOr(BitAnd(b, 240), BitAnd(AsU8(to_digit16(ch)), 15))

move_cursor_left(c) ==
    IF ~c.is_visible THEN [c EXCEPT !.is_visible = TRUE]
    ELSE IF ~c.is_left_nibble THEN [c EXCEPT !.is_left_nibble = TRUE]
    ELSE IF c.x = 0 /\ c.is_left_nibble THEN c
    ELSE [c EXCEPT !.is_left_nibble = FALSE,
                   !.x = IF c.x >= 1 THEN c.x - 1 ELSE c.x]

\* A move right that falls through after waking the cursor.
move_cursor_right_no_return(c) ==
    IF c.is_left_nibble
    THEN [c EXCEPT !.is_visible = TRUE, !.is_left_nibble = FALSE]
    ELSE IF c.x = BYTES_PER_LINE - 1 /\ ~c.is_left_nibble
    THEN [c EXCEPT !.is_visible = TRUE]
    ELSE [c EXCEPT !.is_visible = TRUE, !.is_left_nibble = TRUE,
                   !.x = Min(c.x + 1, BYTES_PER_LINE - 1)]

move_cursor_right(c) ==
    IF ~c.is_visible THEN [c EXCEPT !.is_visible = TRUE]
    ELSE IF c.is_left_nibble THEN [c EXCEPT !.is_left_nibble = FALSE]
    ELSE IF c.x = BYTES_PER_LINE - 1 /\ ~c.is_left_nibble THEN c
    ELSE [c EXCEPT !.is_left_nibble = TRUE,
                   !.x = Min(c.x + 1, BYTES_PER_LINE - 1)]

\* A move up that also returns to the start of the line.
move_cursor_up_home(c) ==
    IF ~c.is_visible THEN [c EXCEPT !.is_visible = TRUE]
    ELSE IF c.y >= 1 THEN [c EXCEPT !.y = c.y - 1, !.x = 0]
    ELSE c

move_cursor_up(c) ==
    IF ~c.is_visible THEN [c EXCEPT !.is_visible = TRUE]
    ELSE IF c.y >= 1 THEN [c EXCEPT !.y = c.y - 1]
    ELSE c

\* move_cursor_down: the outcomes [ok, cursor]; ok = FALSE is the panic of
\* lines.len() - 1 on an empty view in a build with overflow checks.
move_cursor_down(c, n) ==
    IF ~c.is_visible THEN {[ok |-> TRUE, cursor |-> [c EXCEPT !.is_visible = TRUE]]}
    ELSE {[ok |-> r.ok,
           cursor |-> IF r.ok THEN [c EXCEPT !.y = Min(c.y + 1, r.val)] ELSE c]
          : r \in UsizeSub(n, 1)}

\* A concatenation that leaves out a short last line.
RECURSIVE ConcatWholeLines(_)
ConcatWholeLines(ls) ==
    IF ls = <<>> THEN <<>>
    ELSE (IF Len(Head(ls).bytes) = BYTES_PER_LINE THEN Head(ls).bytes ELSE <<>>)
         \o ConcatWholeLines(Tail(ls))

\* get_data_as_bytes: every byte of every line, in order.
RECURSIVE get_data_as_bytes(_)
get_data_as_bytes(ls) ==
    IF ls = <<>> THEN <<>>
    ELSE Head(ls).bytes \o get_data_as_bytes(Tail(ls))

----------------------------------------------------------------------------
\* The file.

\* seek(Start(0)) then a write of the first k bytes of bs over contents f.
WriteAtStart(f, bs, k) ==
    SubSeq(bs, 1, k) \o SubSeq(f, k + 1, Len(f))

StatusSaved == "File was saved..."

StatusSaveFailed == "Could not save file..."

----------------------------------------------------------------------------
\* TerminalBuffer.

Cell(ch, fg, bg) == [ch |-> ch, fg |-> fg, bg |-> bg]

\* Cell::default()
CellDefault == Cell(" ", "White", "Black")

\* TerminalBuffer::new
TerminalBufferNew(w, h) ==
    [cells |-> [i \in 1..(w * h) |-> CellDefault], w |-> w, h |-> h]

\* A clear that empties the cell vector.
clear_truncates(buf) == [buf EXCEPT !.cells = <<>>]

\* TerminalBuffer::clear
clear(buf) == [buf EXCEPT !.cells = [i \in 1..Len(buf.cells) |-> CellDefault]]

\* TerminalBuffer::put_cell: index = y * w + x, stored through get_mut(index).
put_cell(buf, x, y, cell) ==
    LET index == y * buf.w + x
    IN IF index < Len(buf.cells)
       THEN [buf EXCEPT !.cells[index + 1] = cell]
       ELSE buf

\* TerminalBuffer::put_cells: character i of chs is stored at index
\* y * w + x + i through get_mut; each index is written at most once.
put_cells(buf, x, y, chs, fg, bg) ==
    LET start_index == y * buf.w + x
        written == [k \in 1..Len(buf.cells) |->
                       IF k - 1 >= start_index /\ k - 1 - start_index < Len(chs)
                       THEN Cell(chs[k - start_index], fg, bg)
                       ELSE buf.cells[k]]
    IN [buf EXCEPT !.cells = SubSeq(written, 1, Len(buf.cells))]

Patch(cell, x, y) == [cell |-> cell, x |-> x, y |-> y]

\* The indices (counted from 1) the zip of the two cell vectors visits.
ZipIndices(a, b) == [i \in 1..Min(Len(a.cells), Len(b.cells)) |-> i]

\* A diff that compares the glyphs only.
diff_glyph_only(a, b) ==
    IF a.w = b.w /\ a.h = b.h
    THEN LET changed == SelectSeq(ZipIndices(a, b),
                                  LAMBDA i : a.cells[i].ch # b.cells[i].ch)
         IN [ok |-> TRUE,
             patches |-> [k \in 1..Len(changed) |->
                             Patch(a.cells[changed[k]],
                                   (changed[k] - 1) % a.w,
                                   (changed[k] - 1) \div a.w)]]
    ELSE [ok |-> FALSE, patches |-> <<>>]

\* A diff whose patches carry the other buffer's cell.
diff_other_cell(a, b) ==
    IF a.w = b.w /\ a.h = b.h
    THEN LET changed == SelectSeq(ZipIndices(a, b),
                                  LAMBDA i : a.cells[i] # b.cells[i])
         IN [ok |-> TRUE,
             patches |-> [k \in 1..Len(changed) |->
                             Patch(b.cells[changed[k]],
                                   (changed[k] - 1) % a.w,
                                   (changed[k] - 1) \div a.w)]]
    ELSE [ok |-> FALSE, patches |-> <<>>]

\* TerminalBuffer::diff: ok = FALSE is the failed assertion that the two
\* buffers have the same dimensions; else one patch, in index order, for
\* each index i (counted from 0) whose cells differ, with this buffer's
\* cell, x = i % w and y = i / w.
diff(a, b) ==
    IF a.w = b.w /\ a.h = b.h
    THEN LET changed == SelectSeq(ZipIndices(a, b),
                                  LAMBDA i : a.cells[i] # b.cells[i])
         IN [ok |-> TRUE,
             patches |-> [k \in 1..Len(changed) |->
                             Patch(a.cells[changed[k]],
                                   (changed[k] - 1) % a.w,
                                   (changed[k] - 1) \div a.w)]]
    ELSE [ok |-> FALSE, patches |-> <<>>]

\* v as u16
AsU16(v) == v % 65536

\* One patch of apply_patches on the terminal: MoveTo(x as u16, y as u16),
\* the two colours, Print(ch). The terminal shows the cell at that place.
apply_patch(term, p) ==
    LET x == AsU16(p.x)
        y == AsU16(p.y)
    IN IF x < term.w /\ y < term.h
       THEN [term EXCEPT !.cells[y * term.w + x + 1] = p.cell]
       ELSE term

\* apply_patches: the patches in order.
RECURSIVE apply_patches(_, _)
apply_patches(term, ps) ==
    IF ps = <<>> THEN term
    ELSE apply_patches(apply_patch(term, Head(ps)), Tail(ps))

\* TerminalBuffer::flush: the screen is cleared and every cell printed from
\* the top left, row after row.
flush(buf, term) == [term EXCEPT !.cells = buf.cells]

----------------------------------------------------------------------------
\* Rendering: status_bar, render_hex_editor and the frame of one tick.

\* The characters '!' (0x21) to '~' (0x7E), for which is_ascii_graphic holds.
\* The grave accent (0x60) cannot be written in a string here and is named.
AsciiGraphic == <<
    "!", "\"", "#", "$", "%", "&", "'", "(", ")", "*", "+", ",",
    "-", ".", "/", "0", "1", "2", "3", "4", "5", "6", "7", "8",
    "9", ":", ";", "<", "=", ">", "?", "@", "A", "B", "C", "D",
    "E", "F", "G", "H", "I", "J", "K", "L", "M", "N", "O", "P",
    "Q", "R", "S", "T", "U", "V", "W", "X", "Y", "Z", "[", "\\",
    "]", "^", "_", "grave", "a", "b", "c", "d", "e", "f", "g", "h",
    "i", "j", "k", "l", "m", "n", "o", "p", "q", "r", "s", "t",
    "u", "v", "w", "x", "y", "z", "{", "|", "}", "~">>

\* The glyph of the ASCII column: the byte as a char when is_ascii_graphic.
AsciiGlyph(b) == IF b >= 33 /\ b <= 126 THEN AsciiGraphic[b - 32] ELSE "."

\* format!("{value:1X}") of a value below 16.
NibbleGlyph(v) == UpperHex[v + 1]

HeaderLabel == <<"H", "e", "x", "E", "d", "i", "t", "o", "r">>

\* The characters of status_label.
LabelChars(label) ==
    IF label = StatusSaved
    THEN <<"F", "i", "l", "e", " ", "w", "a", "s", " ",
           "s", "a", "v", "e", "d", ".", ".", ".">>
    ELSE IF label = StatusSaveFailed
    THEN <<"C", "o", "u", "l", "d", " ", "n", "o", "t", " ",
           "s", "a", "v", "e", " ", "f", "i", "l", "e", ".", ".", ".">>
    ELSE <<>>

\* The for loop of status_bar: put_cell of a space at (x_pos, y) for every
\* x_pos in n..w. The calls store to the distinct indices y * buf.w + x_pos,
\* each one only if it is inside the cell vector.
StatusFill(buf, n, y, w, fg, bg) ==
    LET filled == [k \in 1..Len(buf.cells) |->
                      IF k - 1 - y * buf.w >= n /\ k - 1 - y * buf.w < w
                      THEN Cell(" ", fg, bg)
                      ELSE buf.cells[k]]
    IN [buf EXCEPT !.cells = SubSeq(filled, 1, Len(buf.cells))]

status_bar(buf, label, x, y, w, fg, bg) ==
    StatusFill(put_cells(buf, x, y, label, fg, bg), Len(label), y, w, fg, bg)

\* Colours that highlight both nibbles of the byte under the cursor.
nibble_colors_both(c, y, x) ==
    IF c.is_visible /\ c.y = y /\ c.x = x
    THEN [left_fg |-> "Black", left_bg |-> "White",
          right_fg |-> "Black", right_bg |-> "White"]
    ELSE [left_fg |-> "White", left_bg |-> "Black",
          right_fg |-> "White", right_bg |-> "Black"]

\* The colours render_hex_editor gives the two nibbles of byte x of line y.
nibble_colors(c, y, x) ==
    IF c.is_visible /\ c.y = y /\ c.x = x
    THEN IF c.is_left_nibble
         THEN [left_fg |-> "Black", left_bg |-> "White",
               right_fg |-> "White", right_bg |-> "Black"]
         ELSE [left_fg |-> "White", left_bg |-> "Black",
               right_fg |-> "Black", right_bg |-> "White"]
    ELSE [left_fg |-> "White", left_bg |-> "Black",
          right_fg |-> "White", right_bg |-> "Black"]

\* The first loop over the bytes of a line: for byte x, put_cells of its
\* high digit at (x_start + 11 + x * 3, y + y_start) and of its low digit one
\* column further. The calls store to distinct indices, each one only if it
\* is inside the cell vector.
RenderHexDigits(buf, bytes, c, y, x_start, y_start) ==
    LET start_hex == 11
        first == (y + y_start) * buf.w + x_start + start_hex
        digits == [k \in 1..Len(buf.cells) |->
                      LET x == (k - 1 - first) \div 3
                          nibble == (k - 1 - first) % 3
                      IN IF k - 1 >= first /\ x < Len(bytes) /\ nibble < 2
                         THEN LET byte_data == bytes[x + 1]
                                  colors == nibble_colors(c, y, x)
                              IN IF nibble = 0
                                 THEN Cell(NibbleGlyph(BitAnd(byte_data \div 16, 15)),
                                           colors.left_fg, colors.left_bg)
                                 ELSE Cell(NibbleGlyph(BitAnd(byte_data, 15)),
                                           colors.right_fg, colors.right_bg)
                         ELSE buf.cells[k]]
    IN [buf EXCEPT !.cells = SubSeq(digits, 1, Len(buf.cells))]

\* The second loop over the bytes of a line, the ASCII column: put_cell of
\* the glyph of byte x at (x_start + start_asci + x, y + y_start).
RenderAscii(buf, bytes, y, x_start, y_start) ==
    LET start_asci == 11 + 3 * BYTES_PER_LINE - 1 + 2
        first == (y + y_start) * buf.w + x_start + start_asci
        glyphs == [k \in 1..Len(buf.cells) |->
                      IF k - 1 >= first /\ k - 1 - first < Len(bytes)
                      THEN Cell(AsciiGlyph(bytes[k - first]), "White", "Black")
                      ELSE buf.cells[k]]
    IN [buf EXCEPT !.cells = SubSeq(glyphs, 1, Len(buf.cells))]

\* The loop of render_hex_editor over the lines, from line y on.
RECURSIVE RenderLines(_, _, _, _, _, _)
RenderLines(buf, ls, c, y, x_start, y_start) ==
    IF y < Len(ls)
    THEN LET line == ls[y + 1]
             address == put_cells(buf, x_start, y + y_start,
                                  line.offset \o <<":">>, "White", "Black")
             hex == RenderHexDigits(address, line.bytes, c, y, x_start, y_start)
             ascii == RenderAscii(hex, line.bytes, y, x_start, y_start)
         IN RenderLines(ascii, ls, c, y + 1, x_start, y_start)
    ELSE buf

render_hex_editor(buf, ls, c, x_start, y_start) ==
    RenderLines(buf, ls, c, 0, x_start, y_start)

\* The frame main draws into a buffer for a terminal of width x height:
\* header bar on row 0, the hex view from row 1, status bar on row
\* height - 1. The model's terminals have height >= 1.
RenderFrame(buf, ls, c, label, width, height) ==
    LET header == status_bar(buf, HeaderLabel, 0, 0, width, "Black", "White")
        view == render_hex_editor(header, ls, c, 0, 1)
    IN status_bar(view, LabelChars(label), 0, height - 1, width, "Black", "White")

----------------------------------------------------------------------------
\* Inputs.

\* Byte i of the input file with first byte seed.
FileByte(seed, i) == (seed + 37 * i) % 256

FileOf(seed, n) == [i \in 1..n |-> FileByte(seed, i - 1)]

\* The files a session of Spec opens: empty, one short line, a full line
\* followed by a short one.
SessionFiles == {FileOf(65, n) : n \in {0, 3, BYTES_PER_LINE + 1}}

LayoutFiles == {FileOf(seed, n) : seed \in {65, 240}, n \in 0..MaxLayoutLen}

MoveKeys == {"h", "l", "j", "k"}

\* The digit key pressed in a session of Spec; SpecNibble presses them all.
EditKeys == {"c"}

AllDigitKeys == {HexKeyChars[p] : p \in 1..Len(HexKeyChars)}

\* Keys the dispatch ignores.
OtherKeys == {"x"}

NoKey == "none"

NoBufOp == [op |-> "none"]

EmptyBuffer == TerminalBufferNew(0, 0)

\* The cells written in SpecBuf: a glyph in the normal colours, and the fill
\* of a status bar.
InputCells == {Cell("A", "White", "Black"), Cell(" ", "Black", "White")}

\* The texts written in SpecBuf.
InputTexts == {<<"A", "B">>, <<"A", "B", "C">>}

\* ScreenState::enable has returned Ok: alternate screen, raw mode, cursor
\* hidden, and the guard alive.
ScreenEnabled == [alt |-> TRUE, raw |-> TRUE, hidden |-> TRUE, guard |-> TRUE]

\* No frame has been drawn.
FramesIdle ==
    /\ prev_buffer = EmptyBuffer
    /\ terminal = EmptyBuffer
    /\ patches = <<>>

\* The process is past ScreenState::enable and has not ended.
ProcessInLoop ==
    /\ quit = FALSE
    /\ screen = ScreenEnabled
    /\ exit = "none"

----------------------------------------------------------------------------
\* The session: main.

Init ==
    /\ data \in SessionFiles
    /\ file = data
    /\ lines = <<>>
    /\ cursor = CursorDefault
    /\ status_label = ""
    /\ key = NoKey
    /\ panicked = FALSE
    /\ touched = {}
    /\ nwrites = 0
    /\ pc = "load"
    /\ buffer = EmptyBuffer
    /\ bufop = NoBufOp
    /\ FramesIdle
    /\ ProcessInLoop

\* let mut hex_view = HexView::new(&data);
Construct ==
    /\ pc = "load"
    /\ lines' = HexViewNew(data)
    /\ cursor' = CursorDefault
    /\ pc' = "run"
    /\ UNCHANGED <<data, file, status_label, key, panicked, touched, nwrites>>
    /\ UNCHANGED bufVars
    /\ UNCHANGED frameVars
    /\ UNCHANGED <<quit, screen, exit>>

Running == pc = "run" /\ ~panicked

\* 'h'
KeyLeft ==
    /\ key' = "h"
    /\ cursor' = move_cursor_left(cursor)
    /\ status_label' = ""
    /\ UNCHANGED <<data, file, lines, panicked, touched, nwrites>>
    /\ UNCHANGED quit

PressLeft ==
    /\ Running
    /\ KeyLeft
    /\ UNCHANGED pc
    /\ UNCHANGED bufVars
    /\ UNCHANGED frameVars
    /\ UNCHANGED procVars

\* 'l'
KeyRight ==
    /\ key' = "l"
    /\ cursor' = move_cursor_right(cursor)
    /\ status_label' = ""
    /\ UNCHANGED <<data, file, lines, panicked, touched, nwrites>>
    /\ UNCHANGED quit

PressRight ==
    /\ Running
    /\ KeyRight
    /\ UNCHANGED pc
    /\ UNCHANGED bufVars
    /\ UNCHANGED frameVars
    /\ UNCHANGED procVars

\* 'k'
KeyUp ==
    /\ key' = "k"
    /\ cursor' = move_cursor_up(cursor)
    /\ status_label' = ""
    /\ UNCHANGED <<data, file, lines, panicked, touched, nwrites>>
    /\ UNCHANGED quit

PressUp ==
    /\ Running
    /\ KeyUp
    /\ UNCHANGED pc
    /\ UNCHANGED bufVars
    /\ UNCHANGED frameVars
    /\ UNCHANGED procVars

\* 'j'. After a panic status_label.clear() is not reached.
KeyDown ==
    /\ key' = "j"
    /\ \E o \in move_cursor_down(cursor, Len(lines)) :
          /\ Len(lines) = 0 => o.cursor.y <= MaxWrapY
          /\ cursor' = o.cursor
          /\ panicked' = ~o.ok
          /\ status_label' = IF o.ok THEN "" ELSE status_label
    /\ UNCHANGED <<data, file, lines, touched, nwrites>>
    /\ UNCHANGED quit

PressDown ==
    /\ Running
    /\ KeyDown
    /\ UNCHANGED pc
    /\ UNCHANGED bufVars
    /\ UNCHANGED frameVars
    /\ UNCHANGED procVars

\* The digit key would store a byte.
WouldWrite == cursor.is_visible /\ get_selected_byte(lines, cursor) # {}

\* KeyCode::Char(key) if key.is_digit(16)
KeyDigit(ch) ==
    /\ is_digit16(ch)
    /\ key' = ch
    /\ IF cursor.is_visible /\ get_selected_byte(lines, cursor) # {}
       THEN \E at \in get_selected_byte(lines, cursor) :
               /\ lines' = [lines EXCEPT ![at[1]].bytes[at[2]] =
                               write_nibble(@, cursor.is_left_nibble, ch)]
               /\ touched' = touched \cup {(at[1] - 1) * BYTES_PER_LINE + at[2] - 1}
               /\ nwrites' = nwrites + 1
       ELSE UNCHANGED <<lines, touched, nwrites>>
    /\ UNCHANGED <<data, file, cursor, status_label, panicked>>
    /\ UNCHANGED quit

PressDigit(ch) ==
    /\ Running
    /\ KeyDigit(ch)
    /\ UNCHANGED pc
    /\ UNCHANGED bufVars
    /\ UNCHANGED frameVars
    /\ UNCHANGED procVars

\* A save that reports no failure.
KeySaveSilent ==
    /\ key' = "s"
    /\ LET bytes == get_data_as_bytes(lines)
       IN \/ /\ file' = WriteAtStart(file, bytes, Len(bytes))
             /\ status_label' = StatusSaved
          \/ /\ file' \in {WriteAtStart(file, bytes, k) : k \in 0..(Len(bytes) - 1)}
             /\ UNCHANGED status_label
    /\ UNCHANGED <<data, lines, cursor, panicked, touched, nwrites>>
    /\ UNCHANGED quit

\* 's': seek to the start and write_all the bytes of the view. A failed
\* write_all has written some prefix; write_all of no bytes cannot fail.
KeySave ==
    /\ key' = "s"
    /\ LET bytes == get_data_as_bytes(lines)
       IN \/ /\ file' = WriteAtStart(file, bytes, Len(bytes))
             /\ status_label' = StatusSaved
          \/ /\ file' \in {WriteAtStart(file, bytes, k) : k \in 0..(Len(bytes) - 1)}
             /\ status_label' = StatusSaveFailed
    /\ UNCHANGED <<data, lines, cursor, panicked, touched, nwrites>>
    /\ UNCHANGED quit

PressSave ==
    /\ Running
    /\ KeySave
    /\ UNCHANGED pc
    /\ UNCHANGED bufVars
    /\ UNCHANGED frameVars
    /\ UNCHANGED procVars

\* Any other character: _ => {}
KeyOther(ch) ==
    /\ ~is_digit16(ch)
    /\ ch \notin MoveKeys \cup {"s"}
    /\ key' = ch
    /\ UNCHANGED <<data, file, lines, cursor, status_label, panicked, touched,
                   nwrites>>
    /\ UNCHANGED quit

PressOther(ch) ==
    /\ Running
    /\ KeyOther(ch)
    /\ UNCHANGED pc
    /\ UNCHANGED bufVars
    /\ UNCHANGED frameVars
    /\ UNCHANGED procVars

PressEdit ==
    \E ch \in EditKeys :
        /\ WouldWrite => nwrites < MaxWrites
        /\ PressDigit(ch)

PressIgnored == \E ch \in OtherKeys : PressOther(ch)

Next ==
    \/ Construct
    \/ PressLeft
    \/ PressRight
    \/ PressUp
    \/ PressDown
    \/ PressEdit
    \/ PressSave
    \/ PressIgnored

Spec == Init /\ [][Next]_vars

----------------------------------------------------------------------------
\* The layout alone: HexView::new applied to files of every length up to
\* MaxLayoutLen.

InitLayout ==
    /\ data \in LayoutFiles
    /\ file = data
    /\ lines = <<>>
    /\ cursor = CursorDefault
    /\ status_label = ""
    /\ key = NoKey
    /\ panicked = FALSE
    /\ touched = {}
    /\ nwrites = 0
    /\ pc = "load"
    /\ buffer = EmptyBuffer
    /\ bufop = NoBufOp
    /\ FramesIdle
    /\ ProcessInLoop

NextLayout == Construct

SpecLayout == InitLayout /\ [][NextLayout]_vars

----------------------------------------------------------------------------
\* The digit keys alone: a one-byte file of every value, the cursor woken by
\* 'l' (left nibble) or moved on by a second 'l' (right nibble), and every
\* digit key.

InitNibble ==
    /\ data \in {<<b>> : b \in 0..255}
    /\ file = data
    /\ lines = HexViewNew(data)
    /\ cursor \in {[x |-> 0, y |-> 0, is_visible |-> TRUE, is_left_nibble |-> side]
                    : side \in BOOLEAN}
    /\ status_label = ""
    /\ key = "l"
    /\ panicked = FALSE
    /\ touched = {}
    /\ nwrites = 0
    /\ pc = "run"
    /\ buffer = EmptyBuffer
    /\ bufop = NoBufOp
    /\ FramesIdle
    /\ ProcessInLoop

PressAnyDigit ==
    /\ nwrites < MaxNibbleWrites
    /\ \E ch \in AllDigitKeys : PressDigit(ch)

NextNibble == PressAnyDigit

SpecNibble == InitNibble /\ [][NextNibble]_vars

----------------------------------------------------------------------------
\* The buffer alone: a buffer of every size up to MaxW x MaxH, and calls with
\* coordinates in and past those sizes.

InitBuf ==
    /\ data = <<>>
    /\ file = <<>>
    /\ lines = <<>>
    /\ cursor = CursorDefault
    /\ status_label = ""
    /\ key = NoKey
    /\ panicked = FALSE
    /\ touched = {}
    /\ nwrites = 0
    /\ pc = "load"
    /\ buffer \in {TerminalBufferNew(w, h) : w \in 0..MaxW, h \in 0..MaxH}
    /\ bufop = NoBufOp
    /\ FramesIdle
    /\ ProcessInLoop

UnchangedSession ==
    UNCHANGED <<data, file, lines, cursor, status_label, key, panicked,
                touched, nwrites, pc, quit, screen, exit>>

UnchangedExceptFrames ==
    UNCHANGED <<data, file, lines, cursor, status_label, key, panicked,
                touched, nwrites, quit, screen, exit>>

BufClear ==
    /\ buffer' = clear(buffer)
    /\ bufop' = [op |-> "clear"]
    /\ UnchangedSession
    /\ UNCHANGED frameVars

BufPutCell ==
    \E x \in 0..(MaxW + 1), y \in 0..(MaxH + 1), cell \in InputCells :
        /\ buffer' = put_cell(buffer, x, y, cell)
        /\ bufop' = [op |-> "put_cell", x |-> x, y |-> y, cell |-> cell]
        /\ UnchangedSession
        /\ UNCHANGED frameVars

BufPutCells ==
    \E x \in 0..(MaxW + 1), y \in 0..(MaxH + 1), chs \in InputTexts :
        /\ buffer' = put_cells(buffer, x, y, chs, "White", "Black")
        /\ bufop' = [op |-> "put_cells", x |-> x, y |-> y, chs |-> chs]
        /\ UnchangedSession
        /\ UNCHANGED frameVars

NextBuf ==
    \/ BufClear
    \/ BufPutCell
    \/ BufPutCells

SpecBuf == InitBuf /\ [][NextBuf]_vars

----------------------------------------------------------------------------
\* diff and apply_patches alone: every pair of frames of the same size, of at
\* most MaxDiffCells cells; the terminal shows the reference frame.

\* Cells of the new frame: the default and cells differing from it in the
\* glyph only, in the foreground only, and in both colours.
NewFrameCells ==
    {CellDefault, Cell("A", "White", "Black"), Cell(" ", "Black", "Black"),
     Cell(" ", "Black", "White")}

\* Cells of the reference frame.
RefFrameCells == {CellDefault, Cell(" ", "Black", "White")}

FramesOf(w, h, cells) ==
    {[cells |-> c, w |-> w, h |-> h] : c \in [1..(w * h) -> cells]}

InitDiff ==
    /\ data = <<>>
    /\ file = <<>>
    /\ lines = <<>>
    /\ cursor = CursorDefault
    /\ status_label = ""
    /\ key = NoKey
    /\ panicked = FALSE
    /\ touched = {}
    /\ nwrites = 0
    /\ pc = "diff"
    /\ bufop = NoBufOp
    /\ \E w \in 0..MaxDiffCells, h \in 0..MaxDiffCells :
          /\ w * h <= MaxDiffCells
          /\ buffer \in FramesOf(w, h, NewFrameCells)
          /\ prev_buffer \in FramesOf(w, h, RefFrameCells)
    /\ terminal = prev_buffer
    /\ patches = <<>>
    /\ ProcessInLoop

\* let patches = buffer.diff(&prev_buffer);
DiffStep ==
    /\ pc = "diff"
    /\ diff(buffer, prev_buffer).ok
    /\ patches' = diff(buffer, prev_buffer).patches
    /\ pc' = "apply"
    /\ UnchangedExceptFrames
    /\ UNCHANGED <<buffer, bufop, prev_buffer, terminal>>

\* apply_patches(&mut stdout, &patches)
ApplyStep ==
    /\ pc = "apply"
    /\ terminal' = apply_patches(terminal, patches)
    /\ pc' = "shown"
    /\ UnchangedExceptFrames
    /\ UNCHANGED <<buffer, bufop, prev_buffer, patches>>

NextDiff ==
    \/ DiffStep
    \/ ApplyStep

SpecDiff == InitDiff /\ [][NextDiff]_vars

----------------------------------------------------------------------------
\* Rendering alone: one frame for each file and each cursor a session on it
\* reaches, on a terminal that holds the whole hex grid.

\* The cursors of a view of n lines: the default one, and the visible ones
\* on every column and nibble of every line (of line 0 when there is none).
CursorsOf(n) ==
    {CursorDefault} \cup
    {[x |-> x, y |-> y, is_visible |-> TRUE, is_left_nibble |-> side] :
        x \in 0..(BYTES_PER_LINE - 1),
        y \in 0..(IF n = 0 THEN 0 ELSE n - 1),
        side \in BOOLEAN}

InitRender ==
    /\ data \in SessionFiles
    /\ file = data
    /\ lines = HexViewNew(data)
    /\ cursor \in CursorsOf(Len(lines))
    /\ status_label = ""
    /\ key = NoKey
    /\ panicked = FALSE
    /\ touched = {}
    /\ nwrites = 0
    /\ pc = "render"
    /\ buffer = TerminalBufferNew(RenderW, RenderH)
    /\ bufop = NoBufOp
    /\ FramesIdle
    /\ ProcessInLoop

\* buffer.clear(); status_bar; render_hex_editor; status_bar
RenderStep ==
    /\ pc = "render"
    /\ buffer' = RenderFrame(clear(buffer), lines, cursor, status_label,
                             buffer.w, buffer.h)
    /\ pc' = "shown"
    /\ UnchangedExceptFrames
    /\ UNCHANGED <<bufop, prev_buffer, terminal, patches>>

NextRender == RenderStep

SpecRender == InitRender /\ [][NextRender]_vars

----------------------------------------------------------------------------
\* The whole of main: ScreenState::enable, the first frame, the ticks of the
\* event loop with their frames, and every way the process ends.

MainFiles == {FileOf(65, 0), FileOf(65, 1)}

\* The sizes terminal::size() returns: one where a hex row shows the address
\* and the first byte, and one where the only hex row is the status row.
MainSizes == {<<MaxTermW, MaxTermH>>, <<12, 2>>}

\* The terminal as the process finds it.
ScreenOriginal == [alt |-> FALSE, raw |-> FALSE, hidden |-> FALSE, guard |-> FALSE]

\* Drop for ScreenState: Show, disable_raw_mode, LeaveAlternateScreen. It
\* runs only if the guard _screen_state exists.
Drop(sc) == IF sc.guard THEN ScreenOriginal ELSE sc

InitMain ==
    /\ data \in MainFiles
    /\ file = data
    /\ lines = <<>>
    /\ cursor = CursorDefault
    /\ status_label = ""
    /\ key = NoKey
    /\ panicked = FALSE
    /\ touched = {}
    /\ nwrites = 0
    /\ pc = "enter_alt"
    /\ buffer = EmptyBuffer
    /\ bufop = NoBufOp
    /\ FramesIdle
    /\ quit = FALSE
    /\ screen = ScreenOriginal
    /\ exit = "none"

UnchangedDocument ==
    UNCHANGED <<data, file, lines, cursor, status_label, key, panicked,
                touched, nwrites, quit>>

\* main returns or unwinds: every live local is dropped.
Exits(how) ==
    /\ pc' = "exited"
    /\ exit' = how
    /\ screen' = Drop(screen)

\* execute!(io::stdout(), EnterAlternateScreen)?
EnterAlternateScreen ==
    /\ pc = "enter_alt"
    /\ \/ /\ screen' = [screen EXCEPT !.alt = TRUE]
          /\ pc' = "enable_raw"
          /\ UNCHANGED exit
       \/ Exits("err")
    /\ UnchangedDocument
    /\ UNCHANGED bufVars
    /\ UNCHANGED frameVars

\* enable_raw_mode()?
EnableRawMode ==
    /\ pc = "enable_raw"
    /\ \/ /\ screen' = [screen EXCEPT !.raw = TRUE]
          /\ pc' = "hide"
          /\ UNCHANGED exit
       \/ Exits("err")
    /\ UnchangedDocument
    /\ UNCHANGED bufVars
    /\ UNCHANGED frameVars

\* execute!(io::stdout(), Hide)?; Ok(Self)
HideCursor ==
    /\ pc = "hide"
    /\ \/ /\ screen' = [screen EXCEPT !.hidden = TRUE, !.guard = TRUE]
          /\ pc' = "size"
          /\ UNCHANGED exit
       \/ Exits("err")
    /\ UnchangedDocument
    /\ UNCHANGED bufVars
    /\ UNCHANGED frameVars

\* terminal::size()?, the two buffers, HexView::new, and the first frame
\* drawn into prev_buffer.
FirstFrame ==
    /\ pc = "size"
    /\ \/ /\ \E size \in MainSizes :
                /\ buffer' = TerminalBufferNew(size[1], size[2])
                /\ prev_buffer' = RenderFrame(TerminalBufferNew(size[1], size[2]),
                                              HexViewNew(data), CursorDefault, "",
                                              size[1], size[2])
                /\ terminal' = TerminalBufferNew(size[1], size[2])
          /\ lines' = HexViewNew(data)
          /\ cursor' = CursorDefault
          /\ status_label' = ""
          /\ pc' = "flush"
          /\ UNCHANGED <<screen, exit>>
       \/ /\ Exits("err")
          /\ UNCHANGED <<lines, cursor, status_label, buffer, prev_buffer, terminal>>
    /\ UNCHANGED <<data, file, key, panicked, touched, nwrites, quit, bufop, patches>>

\* prev_buffer.flush(&mut stdout)?; let mut quit = false;
FirstFlush ==
    /\ pc = "flush"
    /\ \/ /\ terminal' = flush(prev_buffer, terminal)
          /\ pc' = "loop"
          /\ UNCHANGED <<screen, exit>>
       \/ /\ Exits("err")
          /\ UNCHANGED terminal
    /\ UnchangedDocument
    /\ UNCHANGED <<buffer, bufop, prev_buffer, patches>>

\* A Ctrl+C that is read and sets no flag.
KeyCtrlCIgnored ==
    /\ key' = "ctrl+c"
    /\ UNCHANGED <<data, file, lines, cursor, status_label, panicked, touched,
                   nwrites, quit>>

\* KeyCode::Char('c') with KeyModifiers::CONTROL
KeyCtrlC ==
    /\ key' = "ctrl+c"
    /\ quit' = TRUE
    /\ UNCHANGED <<data, file, lines, cursor, status_label, panicked, touched,
                   nwrites>>

\* poll() returned false, or the event was not a key press.
NoEvent ==
    /\ key' = NoKey
    /\ UNCHANGED <<data, file, lines, cursor, status_label, panicked, touched,
                   nwrites, quit>>

\* The event part of a tick.
TickEvent ==
    \/ NoEvent
    \/ KeyCtrlC
    \/ KeyLeft
    \/ /\ cursor.x <= MaxMainX
       /\ KeyRight
    \/ KeyUp
    \/ KeyDown
    \/ /\ WouldWrite => nwrites < MaxMainWrites
       /\ \E ch \in EditKeys : KeyDigit(ch)
    \/ KeySave

\* The frame part of a tick, on the view, cursor and label the event part
\* left: clear, render, diff, apply_patches, flush, swap. A failed
\* apply_patches or stdout.flush() has put out some of the patches. The
\* local patches of the tick is gone at its end.
TickFrame(ls, c, label) ==
    LET drawn == RenderFrame(clear(buffer), ls, c, label, buffer.w, buffer.h)
        d == diff(drawn, prev_buffer)
    IN IF ~d.ok
       THEN /\ Exits("panic")
            /\ UNCHANGED <<buffer, prev_buffer, terminal, patches>>
       ELSE \/ /\ terminal' = apply_patches(terminal, d.patches)
               /\ prev_buffer' = drawn
               /\ buffer' = prev_buffer
               /\ UNCHANGED <<pc, screen, exit, patches>>
            \/ /\ UNCHANGED patches
               /\ terminal' \in {apply_patches(terminal, SubSeq(d.patches, 1, k)) :
                                    k \in 0..Len(d.patches)}
               /\ buffer' = drawn
               /\ UNCHANGED prev_buffer
               /\ Exits("err")

\* One pass of the loop body.
Tick ==
    /\ pc = "loop"
    /\ ~quit
    /\ TickEvent
    /\ IF panicked'
       THEN /\ Exits("panic")
            /\ UNCHANGED <<buffer, prev_buffer, terminal, patches>>
       ELSE TickFrame(lines', cursor', status_label')
    /\ UNCHANGED bufop

\* poll(Duration::ZERO).unwrap() or read().unwrap() panics.
PollFails ==
    /\ pc = "loop"
    /\ ~quit
    /\ Exits("panic")
    /\ UNCHANGED <<data, file, lines, cursor, status_label, key, touched,
                   nwrites, quit>>
    /\ panicked' = TRUE
    /\ UNCHANGED bufVars
    /\ UNCHANGED frameVars

\* while !quit is false: Ok(())
LoopExit ==
    /\ pc = "loop"
    /\ quit
    /\ Exits("ok")
    /\ UnchangedDocument
    /\ UNCHANGED bufVars
    /\ UNCHANGED frameVars

NextMain ==
    \/ EnterAlternateScreen
    \/ EnableRawMode
    \/ HideCursor
    \/ FirstFrame
    \/ FirstFlush
    \/ Tick
    \/ PollFails
    \/ LoopExit

SpecMain == InitMain /\ [][NextMain]_vars

----------------------------------------------------------------------------
\* Properties.

\* The value of a hexadecimal digit character, by table.
DigitValue ==
    ("0" :> 0) @@ ("1" :> 1) @@ ("2" :> 2) @@ ("3" :> 3) @@ ("4" :> 4) @@
    ("5" :> 5) @@ ("6" :> 6) @@ ("7" :> 7) @@ ("8" :> 8) @@ ("9" :> 9) @@
    ("a" :> 10) @@ ("b" :> 11) @@ ("c" :> 12) @@ ("d" :> 13) @@ ("e" :> 14) @@
    ("f" :> 15) @@ ("A" :> 10) @@ ("B" :> 11) @@ ("C" :> 12) @@ ("D" :> 13) @@
    ("E" :> 14) @@ ("F" :> 15)

UpperHexChars == {"0", "1", "2", "3", "4", "5", "6", "7", "8", "9",
                  "A", "B", "C", "D", "E", "F"}

\* The number a sequence of hexadecimal digit characters denotes.
RECURSIVE HexValue(_)
HexValue(s) ==
    IF s = <<>> THEN 0
    ELSE 16 * HexValue(SubSeq(s, 1, Len(s) - 1)) + DigitValue[s[Len(s)]]

\* A byte exists at line y, column x (both counted from 0).
ByteExists(y, x) == y < Len(lines) /\ x < Len(lines[y + 1].bytes)

\* C1: in every state of a session on a non-empty document in which the
\* cursor is visible, line * 16 + column is a valid byte index: the line
\* exists and the column is less than that line's length.
C1_CursorValid ==
    (pc = "run" /\ Len(data) > 0 /\ cursor.is_visible)
        => /\ cursor.y * BYTES_PER_LINE + cursor.x < Len(data)
           /\ ByteExists(cursor.y, cursor.x)

\* C2: with a visible cursor on a byte of its line, a move left or right
\* keeps the line and leaves the column on a byte of that line; move right
\* on the low nibble of the line's last byte and move left on the high nibble
\* of column 0 change nothing.
C2_LeftRightStayInLine ==
    [][(/\ pc = "run"
        /\ cursor.is_visible
        /\ ByteExists(cursor.y, cursor.x)
        /\ key' \in {"h", "l"})
       => /\ cursor'.y = cursor.y
          /\ cursor'.x < Len(lines[cursor.y + 1].bytes)
          /\ (/\ key' = "l"
              /\ ~cursor.is_left_nibble
              /\ cursor.x = Len(lines[cursor.y + 1].bytes) - 1) => cursor' = cursor
          /\ (key' = "h" /\ cursor.is_left_nibble /\ cursor.x = 0)
                => cursor' = cursor]_vars

\* C3: on an empty document no sequence of moves fails, and the cursor line
\* stays 0.
C3_EmptyDownGuarded ==
    (pc = "run" /\ Len(lines) = 0) => (~panicked /\ cursor.y = 0)

\* C4: on a non-empty document with a visible cursor, move up and move down
\* leave column and nibble side alone; up decrements the line and does
\* nothing at line 0; down increments it and does nothing at the last line;
\* the line is always less than the line count.
C4_UpDownVertical ==
    [][/\ (pc = "run" /\ Len(data) > 0 /\ cursor.is_visible /\ key' = "k")
            => cursor' = [cursor EXCEPT !.y = IF cursor.y = 0 THEN 0 ELSE cursor.y - 1]
       /\ (pc = "run" /\ Len(data) > 0 /\ cursor.is_visible /\ key' = "j")
            => /\ cursor' = [cursor EXCEPT
                                !.y = IF cursor.y = Len(lines) - 1
                                      THEN cursor.y ELSE cursor.y + 1]
               /\ ~panicked'
       /\ (pc' = "run" /\ Len(data) > 0) => cursor'.y < Len(lines')]_vars

C4_Witness ==
    /\ key = "j"
    /\ cursor.is_visible
    /\ cursor.y = 1
    /\ cursor.x > 0
    /\ ~cursor.is_left_nibble

\* C5: the cursor starts invisible at line 0, column 0, high nibble; a move
\* key pressed while it is invisible makes it visible and changes nothing
\* else of it; a visible cursor stays visible.
C5_CursorWake ==
    /\ cursor = CursorDefault
    /\ [][/\ pc = "load" => cursor' = CursorDefault
          /\ (pc = "run" /\ ~cursor.is_visible /\ key' \in MoveKeys)
                => cursor' = [cursor EXCEPT !.is_visible = TRUE]
          /\ (pc = "run" /\ ~cursor.is_visible /\ key' \notin MoveKeys)
                => cursor' = cursor
          /\ cursor.is_visible => cursor'.is_visible]_vars

C5_Witness ==
    /\ key = "l"
    /\ cursor = [CursorDefault EXCEPT !.is_visible = TRUE]
    /\ Len(lines) > 0

\* C6: a digit key d on a byte b under a visible cursor makes the byte
\* d * 16 + (b mod 16) on the high nibble and (b div 16) * 16 + d on the low
\* nibble, a value in 0..255.
C6_NibbleWrite ==
    [][(/\ pc = "run"
        /\ cursor.is_visible
        /\ ByteExists(cursor.y, cursor.x)
        /\ key' \in DOMAIN DigitValue)
       => LET b == lines[cursor.y + 1].bytes[cursor.x + 1]
              r == lines'[cursor.y + 1].bytes[cursor.x + 1]
              d == DigitValue[key']
          IN /\ r \in 0..255
             /\ r = IF cursor.is_left_nibble
                    THEN d * 16 + (b % 16)
                    ELSE (b \div 16) * 16 + d]_vars

C6_Witness ==
    /\ key = "F"
    /\ nwrites = 1
    /\ ~cursor.is_left_nibble
    /\ data = <<160>>
    /\ lines[1].bytes = <<175>>

\* C7: a digit key changes at most the byte at (line, column): the cursor,
\* the document length, the lines' count, addresses and lengths and every
\* other byte stay; with the cursor invisible or on no byte it changes
\* nothing; it never fails.
C7_EditFrame ==
    [][(pc = "run" /\ key' \in DOMAIN DigitValue)
       => /\ cursor' = cursor
          /\ data' = data
          /\ file' = file
          /\ ~panicked'
          /\ Len(lines') = Len(lines)
          /\ \A i \in 1..Len(lines) :
                /\ lines'[i].offset = lines[i].offset
                /\ Len(lines'[i].bytes) = Len(lines[i].bytes)
                /\ \A j \in 1..Len(lines[i].bytes) :
                      (i - 1 # cursor.y \/ j - 1 # cursor.x)
                          => lines'[i].bytes[j] = lines[i].bytes[j]
          /\ (~cursor.is_visible \/ ~ByteExists(cursor.y, cursor.x))
                => lines' = lines]_vars

C7_Witness ==
    /\ key \in EditKeys
    /\ cursor.is_visible
    /\ Len(lines) > 0
    /\ ~ByteExists(cursor.y, cursor.x)
    /\ nwrites > 0

\* C8: the bytes produced for saving have the length of the loaded bytes and
\* equal them at every index no digit key has written, everywhere when no
\* digit key has written; a successful save leaves exactly them in the file.
C8_SavedBytesTrackDocument ==
    pc = "run"
        => LET out == get_data_as_bytes(lines)
           IN /\ Len(out) = Len(data)
              /\ \A i \in 1..Len(data) : (i - 1) \notin touched => out[i] = data[i]
              /\ nwrites = 0 => out = data
              /\ (key = "s" /\ status_label = StatusSaved) => file = out

C8_Witness ==
    /\ key = "s"
    /\ status_label = StatusSaved
    /\ nwrites > 0
    /\ file # data
    /\ Len(lines) = 2

\* C9: HexView::new yields ceil(N / 16) lines; line i holds the bytes at
\* offsets [16 i, min(N, 16 (i + 1))) in order, is not empty, and its address
\* is 8 upper-case hexadecimal digits denoting 16 i; no bytes give no lines.
C9_LayoutPartition ==
    pc = "run"
        => LET N == Len(data)
               L == BYTES_PER_LINE
           IN /\ Len(lines) = (N + L - 1) \div L
              /\ N = 0 => lines = <<>>
              /\ \A i \in 0..(Len(lines) - 1) :
                    LET line == lines[i + 1]
                        last == IF N < (i + 1) * L THEN N ELSE (i + 1) * L
                    IN /\ line.bytes = [j \in 1..(last - i * L) |-> data[i * L + j]]
                       /\ Len(line.bytes) > 0
                       /\ Len(line.offset) = 8
                       /\ \A p \in 1..8 : line.offset[p] \in UpperHexChars
                       /\ HexValue(line.offset) = i * L

C9_Witness ==
    /\ pc = "run"
    /\ Len(lines) = 3
    /\ Len(lines[3].bytes) = 1
    /\ lines[2].offset = <<"0", "0", "0", "0", "0", "0", "1", "0">>

\* C10: put_cell(x, y, ...) on a W x H buffer with x >= W or y >= H leaves
\* every cell as it was; with x < W and y < H it stores the cell at index
\* y * W + x and leaves every other cell as it was.
C10_PutCellOutOfBounds ==
    [][bufop'.op = "put_cell"
       => LET x == bufop'.x
              y == bufop'.y
              W == buffer.w
              H == buffer.h
          IN IF x >= W \/ y >= H
             THEN buffer' = buffer
             ELSE /\ buffer'.w = W
                  /\ buffer'.h = H
                  /\ Len(buffer'.cells) = Len(buffer.cells)
                  /\ buffer'.cells[y * W + x + 1] = bufop'.cell
                  /\ \A i \in 1..Len(buffer.cells) :
                        i # y * W + x + 1 => buffer'.cells[i] = buffer.cells[i]]_vars

\* C11: put_cells(x, y, text, ...) on a W x H buffer changes only cells of
\* row y: cell (x + i, y) takes character i of the text when x + i < W and
\* y < H; every other cell, of row y or of any other row, stays as it was.
C11_PutRunNoWrap ==
    [][bufop'.op = "put_cells"
       => LET x == bufop'.x
              y == bufop'.y
              chs == bufop'.chs
              W == buffer.w
              H == buffer.h
          IN /\ buffer'.w = W
             /\ buffer'.h = H
             /\ Len(buffer'.cells) = Len(buffer.cells)
             /\ \A row \in 0..(H - 1), col \in 0..(W - 1) :
                   buffer'.cells[row * W + col + 1] =
                       IF row = y /\ col >= x /\ col - x < Len(chs)
                       THEN Cell(chs[col - x + 1], "White", "Black")
                       ELSE buffer.cells[row * W + col + 1]]_vars

\* The permutations of a set of indices, as sequences.
RECURSIVE PermutationsOf(_)
PermutationsOf(S) ==
    IF S = {} THEN {<<>>}
    ELSE UNION {{<<i>> \o q : q \in PermutationsOf(S \ {i})} : i \in S}

\* The cells at index i (counted from 1) of two frames differ in glyph,
\* foreground or background.
CellsDiffer(a, b, i) ==
    \/ a.cells[i].ch # b.cells[i].ch
    \/ a.cells[i].fg # b.cells[i].fg
    \/ a.cells[i].bg # b.cells[i].bg

\* C12: for frames A and B of the same W x H, A.diff(B) holds exactly one
\* patch for each index at which the cells differ in glyph, foreground or
\* background, with A's cell and the coordinates (i mod W, i div W), in
\* increasing index order, and none for an index at which the cells are
\* equal; the diff of equal frames is empty.
C12_DiffExactMinimal ==
    pc \in {"apply", "shown"}
        => LET W == buffer.w
               differing == {i \in 1..Len(buffer.cells) :
                                CellsDiffer(buffer, prev_buffer, i)}
               at(k) == patches[k].y * W + patches[k].x + 1
           IN /\ Len(patches) = Cardinality(differing)
              /\ \A k \in 1..Len(patches) :
                    /\ patches[k].x < W
                    /\ at(k) \in differing
                    /\ patches[k].cell = buffer.cells[at(k)]
                    /\ k > 1 => at(k - 1) < at(k)
              /\ buffer = prev_buffer => patches = <<>>

C12_Witness ==
    /\ pc = "apply"
    /\ buffer.w = 2
    /\ buffer.h = 2
    /\ Len(patches) = 2
    /\ patches[1].x = 1 /\ patches[1].y = 0
    /\ patches[2].x = 0 /\ patches[2].y = 1
    /\ patches[2].cell.ch = prev_buffer.cells[3].ch

\* C13: for frames A and B of the same dimensions, writing the patches of
\* diff(A, B) onto a grid equal to B gives a grid equal to A in every cell,
\* in the order of the list and in every other order.
C13_DiffApplyRoundTrip ==
    /\ pc = "shown" => terminal.cells = buffer.cells
    /\ pc \in {"apply", "shown"}
          => \A order \in PermutationsOf(1..Len(patches)) :
                apply_patches(prev_buffer,
                              [k \in 1..Len(patches) |-> patches[order[k]]]).cells
                    = buffer.cells

C13_Witness ==
    /\ pc = "shown"
    /\ Len(patches) = 3
    /\ buffer.w = 2
    /\ buffer.h = 2
    /\ terminal # prev_buffer

\* C15: a digit key pressed again, with the cursor where it was, changes
\* nothing: the document after the two presses is the document after one.
C15_NibbleWriteIdempotent ==
    [][(/\ pc = "run"
        /\ nwrites >= 1
        /\ key \in DOMAIN DigitValue
        /\ key' \in DOMAIN DigitValue
        /\ DigitValue[key'] = DigitValue[key])
       => /\ lines' = lines
          /\ cursor' = cursor
          /\ data' = data
          /\ file' = file]_vars

C15_Witness ==
    /\ nwrites = 2
    /\ key = "7"
    /\ cursor.is_left_nibble
    /\ data = <<137>>
    /\ lines[1].bytes = <<121>>

\* The cell of a frame at column col of row row.
CellAt(buf, col, row) == buf.cells[row * buf.w + col + 1]

Inverted(cell) == cell.fg = "Black" /\ cell.bg = "White"

Normal(cell) == cell.fg = "White" /\ cell.bg = "Black"

\* C17: in a frame of a terminal that holds the hex grid, the cell of a hex
\* digit is black on white exactly if the cursor is visible, the digit is of
\* the byte at (cursor line, cursor column), and it is the high digit with
\* the cursor on the high nibble or the low digit with it on the low nibble;
\* every other hex digit is white on black. So at most one is inverted, and
\* none while the cursor is invisible.
C17_CursorHighlightExact ==
    pc = "shown"
        => /\ \A y \in 0..(Len(lines) - 1) :
                \A x \in 0..(Len(lines[y + 1].bytes) - 1) :
                    LET high == CellAt(buffer, 11 + 3 * x, y + 1)
                        low == CellAt(buffer, 12 + 3 * x, y + 1)
                        here == cursor.is_visible /\ cursor.y = y /\ cursor.x = x
                    IN /\ Inverted(high) <=> (here /\ cursor.is_left_nibble)
                       /\ Inverted(low) <=> (here /\ ~cursor.is_left_nibble)
                       /\ Inverted(high) \/ Normal(high)
                       /\ Inverted(low) \/ Normal(low)
           /\ Cardinality({<<y, x, d>> \in (0..(Len(lines) - 1))
                                           \X (0..(BYTES_PER_LINE - 1)) \X {0, 1} :
                              /\ x < Len(lines[y + 1].bytes)
                              /\ Inverted(CellAt(buffer, 11 + 3 * x + d, y + 1))})
                 <= (IF cursor.is_visible THEN 1 ELSE 0)

C17_Witness ==
    /\ pc = "shown"
    /\ Len(lines) = 2
    /\ cursor = [x |-> 0, y |-> 1, is_visible |-> TRUE, is_left_nibble |-> FALSE]
    /\ Inverted(CellAt(buffer, 12, 2))
    /\ CellAt(buffer, 12, 2).ch = "1"

\* The buffers, the view and the terminal grid exist.
InLoop == pc = "loop"

\* C16: at the end of every tick, and after the first flush, the terminal
\* grid equals the previous-frame buffer, and both equal the frame drawn
\* into a cleared buffer from the header, the current document and cursor,
\* and the status label.
C16_ScreenConsistent ==
    InLoop
        => /\ terminal = prev_buffer
           /\ prev_buffer = RenderFrame(TerminalBufferNew(prev_buffer.w, prev_buffer.h),
                                        lines, cursor, status_label,
                                        prev_buffer.w, prev_buffer.h)
           /\ prev_buffer = RenderFrame(clear(buffer), lines, cursor, status_label,
                                        buffer.w, buffer.h)

C16_Witness ==
    /\ InLoop
    /\ key = NoKey
    /\ nwrites = 1
    /\ status_label = StatusSaved
    /\ cursor = [x |-> 0, y |-> 0, is_visible |-> TRUE, is_left_nibble |-> TRUE]
    /\ CellAt(terminal, 11, 1) = Cell("C", "Black", "White")
    /\ CellAt(terminal, 0, terminal.h - 1) = Cell("F", "Black", "White")

\* C18: the two frame buffers always have the same width and height and
\* width * height cells each, in every tick and after it, and no run ends by
\* the dimension assertion of diff.
C18_DiffDimensionsAgree ==
    /\ pc \in {"flush", "loop"} \/ (pc = "exited" /\ lines # <<>>)
        => /\ buffer.w = prev_buffer.w
           /\ buffer.h = prev_buffer.h
           /\ Len(buffer.cells) = buffer.w * buffer.h
           /\ Len(prev_buffer.cells) = prev_buffer.w * prev_buffer.h
           /\ diff(buffer, prev_buffer).ok
    /\ exit = "panic" => panicked

C18_Witness ==
    /\ InLoop
    /\ key = "s"
    /\ buffer # prev_buffer
    /\ buffer.w = MaxTermW
    /\ Len(prev_buffer.cells) = MaxTermW * MaxTermH

\* C14: when the program has exited, the terminal is back in its original
\* mode: alternate screen left, raw mode disabled, cursor shown.
C14_TerminalRestored ==
    pc = "exited" => /\ ~screen.alt
                     /\ ~screen.raw
                     /\ ~screen.hidden

\* The frame part of a tick ran to its end: the frame of the document,
\* cursor and label after the event is on the terminal and in prev_buffer,
\* and the buffers are swapped.
TickCompleted ==
    /\ pc' = "loop"
    /\ prev_buffer' = RenderFrame(clear(buffer), lines', cursor', status_label',
                                  buffer.w, buffer.h)
    /\ terminal' = prev_buffer'
    /\ buffer' = prev_buffer

\* C20 as stated, in part: while the quit flag is unset no tick ends the
\* loop.
C20_NoTickEndsLoopUnset ==
    [][(pc = "loop" /\ ~quit) => pc' = "loop"]_vars

\* C20, amended: a Ctrl+C press sets the quit flag and changes neither
\* document nor cursor; the tick in which it is read completes (render,
\* diff, patch, swap) unless its patch output fails, which ends the program
\* with an error; once the flag is set the only step is the normal exit of
\* the loop, and no event is read or applied; nothing happens after the
\* exit; while the flag is unset a tick ends the loop only by an error
\* return or a panic, never by the normal exit; and a plain 'c' leaves the
\* flag unset and is the hex digit C.
C20_QuitOncePerTick ==
    [][/\ (pc = "loop" /\ ~quit /\ key' = "ctrl+c")
            => /\ quit'
               /\ UNCHANGED <<data, file, lines, cursor, status_label>>
               /\ TickCompleted \/ (pc' = "exited" /\ exit' = "err")
       /\ (pc = "loop" /\ quit)
            => /\ pc' = "exited"
               /\ exit' = "ok"
               /\ UNCHANGED <<data, file, lines, cursor, status_label, key, quit>>
               /\ UNCHANGED <<buffer, prev_buffer, terminal>>
       /\ pc # "exited"
       /\ (pc = "loop" /\ ~quit)
            => \/ TickCompleted
               \/ pc' = "exited" /\ exit' \in {"err", "panic"}
       /\ exit' = "ok" => quit
       /\ (pc = "loop" /\ ~quit /\ key' = "c" /\ ~panicked')
            => /\ ~quit'
               /\ cursor' = cursor
               /\ IF cursor.is_visible /\ ByteExists(cursor.y, cursor.x)
                  THEN LET b == lines[cursor.y + 1].bytes[cursor.x + 1]
                       IN lines' = [lines EXCEPT ![cursor.y + 1].bytes[cursor.x + 1] =
                                       IF cursor.is_left_nibble
                                       THEN 12 * 16 + (b % 16)
                                       ELSE (b \div 16) * 16 + 12]
                  ELSE lines' = lines]_vars

C20_Witness ==
    /\ pc = "exited"
    /\ exit = "ok"
    /\ quit
    /\ key = "ctrl+c"
    /\ nwrites = 1
    /\ terminal = prev_buffer
    /\ CellAt(terminal, 11, 1).ch = "C"

\* C19 as stated, in part: the failure message stays until the next
\* directional key press.
C19_LabelStaysUntilMove ==
    [][(status_label = StatusSaveFailed /\ key' \notin MoveKeys)
          => status_label' = StatusSaveFailed]_vars

\* C19, amended: a save key press, failing or not, leaves the session
\* running and the document and cursor unchanged; the label becomes the
\* success message with all bytes written from the start of the file, or
\* the failure message with only some of them written; the failure message
\* stays over every key press that is neither directional nor a save, is
\* cleared by a directional press (which cannot panic then), and is replaced
\* by the message of the next save; the session goes on taking moves, edits
\* and saves.
C19_SaveFailureTransient ==
    [][/\ (pc = "run" /\ key' = "s")
            => /\ pc' = "run"
               /\ ~panicked'
               /\ ~quit'
               /\ exit' = "none"
               /\ UNCHANGED <<data, lines, cursor>>
               /\ LET bytes == get_data_as_bytes(lines)
                  IN \/ /\ status_label' = StatusSaved
                        /\ file' = WriteAtStart(file, bytes, Len(bytes))
                     \/ /\ status_label' = StatusSaveFailed
                        /\ \E k \in 0..(Len(bytes) - 1) :
                              file' = WriteAtStart(file, bytes, k)
       /\ status_label = StatusSaveFailed
            => /\ pc = "run" /\ ~panicked /\ ~quit
               /\ key' \in MoveKeys => status_label' = "" /\ ~panicked'
               /\ key' = "s" => status_label' \in {StatusSaved, StatusSaveFailed}
               /\ key' \notin MoveKeys \cup {"s"}
                     => status_label' = StatusSaveFailed
               /\ key' \in DOMAIN DigitValue /\ cursor.is_visible
                  /\ ByteExists(cursor.y, cursor.x)
                     => nwrites' = nwrites + 1 /\ status_label' = status_label]_vars

C19_Witness ==
    /\ pc = "run"
    /\ ~panicked
    /\ key = "s"
    /\ status_label = StatusSaveFailed
    /\ nwrites = 1
    /\ get_data_as_bytes(lines) # file
    /\ Len(file) = Len(data)

====
